---- MODULE Spec2Model ----
(***************************************************************************)
(* Model of the quote image generator (src/generate/helpers.py,            *)
(* src/generate/directory.py).                                             *)
(*                                                                         *)
(* Strings are sequences of one-character strings, so that split, strip,   *)
(* startswith, endswith and slicing are computed as Python computes them.  *)
(*                                                                         *)
(* Specifications:                                                         *)
(*   SpecCsv    one call of QuoteImageGenerator.process_csv                *)
(*   SpecFolder generate_from_folder, calling process_csv per CSV file     *)
(*   SpecWrap   one call of QuoteImageGenerator._wrap_text                 *)
(*   SpecImage  one call of QuoteImageGenerator.generate_image, with its   *)
(*              call of _calculate_font_size                               *)
(***************************************************************************)
EXTENDS Integers, Sequences, FiniteSets, TLC

VARIABLES
  \* ---- process_csv (helpers.py:294-400)
  pc,               \* position in process_csv: "idle", "loop", "done", "raised"
  lines,            \* the lines of content.split("\n") the for loop has consumed
  header_skipped,
  current_quote,
  current_speaker,
  in_quote,
  count,
  calls,            \* the generate_image calls made, in order
  ret,              \* the value process_csv returned (-1: none yet)
  \* ---- generate_from_folder (directory.py:10-45)
  fpc,              \* "none", "start", "iter", "in_csv", "done", "raised"
  csv_left,         \* CSV files of the for loop not yet processed
  total_images,
  \* ---- _wrap_text (helpers.py:135-174)
  wpc,              \* "none", "loop", "done"
  wtext,            \* the argument text
  wfont,            \* the argument font
  wmax,             \* the argument max_width
  wdone,            \* paragraphs the for loop has processed
  wlines,           \* the local lines
  \* ---- generate_image and _calculate_font_size (helpers.py:176-292)
  gpc,              \* "none", "begin", "fit", "render", "done", "raised"
  self_width,       \* self.width
  self_height,      \* self.height
  available_fonts,  \* self.available_fonts (a family name, or "None")
  speaker_font_path,\* self.speaker_font_path (a family name, or "None")
  quote_arg,        \* the argument quote
  g_speaker,        \* the argument speaker: [given, text]; None is not given
  g_quote,          \* the local quote, as passed to _calculate_font_size
  g_max_width,      \* the local max_width
  g_max_height,     \* the local max_height
  quote_font_size,  \* the loop variable of _calculate_font_size
  tried,            \* the loop iterations made: [size, fits, speaker_added]
  layout,           \* what _calculate_font_size returned
  text_height,      \* generate_image's text_height, in tenths of a pixel
  speaker_added,    \* whether generate_image added the speaker height
  drawn             \* the draw.text calls made, in order

csvVars == <<pc, lines, header_skipped, current_quote, current_speaker,
             in_quote, count, calls, ret>>
folderVars == <<fpc, csv_left, total_images>>
wrapVars == <<wpc, wtext, wfont, wmax, wdone, wlines>>
imageVars == <<gpc, self_width, self_height, available_fonts,
               speaker_font_path, quote_arg, g_speaker, g_quote,
               g_max_width, g_max_height,
               quote_font_size, tried, layout, text_height, speaker_added,
               drawn>>
vars == <<csvVars, folderVars, wrapVars, imageVars>>

----------------------------------------------------------------------------
\* Characters

Q == "\""
CM == ","
SP == " "
NL == "\n"

\* Characters str.strip() removes (the whitespace of the model's alphabet).
Whitespace == {SP, NL}

\* Bounds of the model.
MaxLines == 3       \* lines of a CSV file after its header line
MaxFiles == 2       \* CSV files in the data directory
MaxTokens == 3      \* tokens a text passed to _wrap_text is made of

----------------------------------------------------------------------------
\* Python string primitives

SetMin(S) == CHOOSE x \in S : \A y \in S : x <= y
SetMax(S) == CHOOSE x \in S : \A y \in S : x >= y

\* s.strip()
Strip(s) ==
  LET keep == {i \in 1..Len(s) : s[i] \notin Whitespace}
  IN  IF keep = {} THEN <<>> ELSE SubSeq(s, SetMin(keep), SetMax(keep))

\* s.startswith('"')
StartsWithQuote(s) == Len(s) >= 1 /\ s[1] = Q

\* s.endswith('"')
EndsWithQuote(s) == Len(s) >= 1 /\ s[Len(s)] = Q

\* positions where the two-character pattern '",' starts in s
ClosePositions(s) == {i \in 1..(Len(s) - 1) : s[i] = Q /\ s[i + 1] = CM}

\* '",' in s
HasCloseDelim(s) == ClosePositions(s) # {}

\* s.rsplit('",', 1) when '",' in s: [quote_part, speaker_part]
RSplitClose(s) ==
  LET i == SetMax(ClosePositions(s))
  IN  <<SubSeq(s, 1, i - 1), SubSeq(s, i + 2, Len(s))>>

\* positions of ',' in s
CommaPositions(s) == {i \in 1..Len(s) : s[i] = CM}

\* "," in s
HasComma(s) == CommaPositions(s) # {}

\* a faulty variant of RSplitComma: split at the first comma (str.split(",", 1))
SplitCommaFirst(s) ==
  LET i == SetMin(CommaPositions(s))
  IN  <<SubSeq(s, 1, i - 1), SubSeq(s, i + 1, Len(s))>>

\* s.rsplit(",", 1) when "," in s
RSplitComma(s) ==
  LET i == SetMax(CommaPositions(s))
  IN  <<SubSeq(s, 1, i - 1), SubSeq(s, i + 1, Len(s))>>

\* s[1:]
DropFirst(s) == SubSeq(s, 2, Len(s))

\* s[:-1]
DropLast(s) == SubSeq(s, 1, Len(s) - 1)

\* current_quote += "\n" + part if current_quote else part
Accumulate(cq, part) == IF cq # <<>> THEN cq \o <<NL>> \o part ELSE part

----------------------------------------------------------------------------
\* Inputs: the header lines and the body lines a CSV file is made of.

Headers ==
  { <<>>,                                \* an empty file: "".split("\n") = [""]
    <<"a", CM, "b">>,                    \* quote,speaker
    <<Q, "a">> }                         \* a header is never parsed

Lines ==
  { <<>>,                                \*
    <<SP>>,                              \* whitespace only
    <<"a", CM, "b">>,                    \* a,b
    <<SP, "a", SP, CM, SP, "b", SP>>,    \*  a , b
    <<"a", CM, "b", CM, "a">>,           \* a,b,a
    <<"a">>,                             \* a        (no delimiter)
    <<CM, "b">>,                         \* ,b       (empty quote text)
    <<SP, CM, "b">>,                     \*  ,b      (blank quote text)
    <<Q, "a", Q, CM, "b">>,              \* "a",b
    <<Q, "a", Q>>,                       \* "a"
    <<Q, Q>>,                            \* ""
    <<Q, Q, CM, "b">>,                   \* "",b
    <<Q, "a">>,                          \* "a
    <<Q, SP, "a">>,                      \* " a
    <<Q>>,                               \* "
    <<"b", Q, CM, SP, "a", SP>>,         \* b", a
    <<"b", Q>>,                          \* b"
    <<Q, CM, "b">>,                      \* ",b
    <<"a", Q, CM, "b", Q, CM, "a">>,     \* a",b",a
    <<"b", SP>> }                        \* b        (trailing blank)

\* not line.strip()
IsBlank(line) == Strip(line) = <<>>

----------------------------------------------------------------------------
\* Fonts and their metrics (PIL ImageFont)

\* ImageFont.load_default(): one fixed size, whatever size was asked for.
DefaultFont == [family |-> "default", size |-> 10]

\* ImageFont.truetype(path, size)
TrueType(family, size) == [family |-> family, size |-> size]

\* font.getbbox("x")[2]: the width of one representative character.  Family
\* "A" is a narrow face, family "B" a wider one.
XWidth(font) ==
  IF font.family = "default" THEN 6
  ELSE IF font.family = "B" THEN (font.size * 3) \div 5
  ELSE font.size \div 2

\* The advance of one character: "W" is twice as wide as the others.
CharWidth(font, c) == IF c = "W" THEN 2 * XWidth(font) ELSE XWidth(font)

\* font.getbbox(s)[2]: the width of a line of text
RECURSIVE TextWidth(_, _)
TextWidth(font, s) ==
  IF s = <<>> THEN 0 ELSE CharWidth(font, Head(s)) + TextWidth(font, Tail(s))

\* font.getbbox("Ay")[3]: the height of a line of text
AyHeight(font) == IF font.family = "default" THEN 11 ELSE font.size

\* font.getbbox(s)[3]
TextHeight(font, s) == IF s = <<>> THEN 0 ELSE AyHeight(font)

----------------------------------------------------------------------------
\* textwrap.wrap(paragraph, width=w), with the defaults of TextWrapper
\* (replace_whitespace, drop_whitespace, break_long_words), on text without
\* hyphens: the chunks are the maximal runs of whitespace and of
\* non-whitespace characters.

IsSpaceChunk(c) == \A i \in 1..Len(c) : c[i] \in Whitespace

\* TextWrapper._munge_whitespace: every whitespace character becomes a space
MungeWhitespace(s) == [i \in 1..Len(s) |-> IF s[i] \in Whitespace THEN SP ELSE s[i]]

\* TextWrapper._split
RECURSIVE SplitChunks(_, _)
SplitChunks(s, acc) ==
  IF s = <<>> THEN acc
  ELSE IF acc # <<>>
          /\ (Head(s) \in Whitespace) = (acc[Len(acc)][1] \in Whitespace)
    THEN SplitChunks(Tail(s),
                     [acc EXCEPT ![Len(acc)] = Append(acc[Len(acc)], Head(s))])
    ELSE SplitChunks(Tail(s), Append(acc, <<Head(s)>>))

\* The inner while loop of _wrap_chunks: chunks are moved to the current line
\* while they fit.
RECURSIVE FillLine(_, _, _, _)
FillLine(chunks, cur_line, cur_len, width) ==
  IF chunks # <<>> /\ cur_len + Len(Head(chunks)) <= width
    THEN FillLine(Tail(chunks), Append(cur_line, Head(chunks)),
                  cur_len + Len(Head(chunks)), width)
    ELSE [chunks |-> chunks, cur_line |-> cur_line, cur_len |-> cur_len]

\* TextWrapper._handle_long_word with break_long_words: the next chunk is
\* longer than any line, so as much of it as fits ends the current line.
HandleLongWord(st, width) ==
  LET space_left == width - st.cur_len
      chunk == Head(st.chunks)
  IN  [chunks |-> <<SubSeq(chunk, space_left + 1, Len(chunk))>> \o Tail(st.chunks),
       cur_line |-> Append(st.cur_line, SubSeq(chunk, 1, space_left))]

RECURSIVE Concat(_)
Concat(ss) == IF ss = <<>> THEN <<>> ELSE Head(ss) \o Concat(Tail(ss))

\* TextWrapper._wrap_chunks: one line per iteration of the outer while loop
RECURSIVE WrapChunks(_, _, _)
WrapChunks(chunks, width, out) ==
  IF chunks = <<>> THEN out
  ELSE
    LET c1 == IF IsSpaceChunk(Head(chunks)) /\ out # <<>>
                THEN Tail(chunks) ELSE chunks
        st1 == FillLine(c1, <<>>, 0, width)
        st2 == IF st1.chunks # <<>> /\ Len(Head(st1.chunks)) > width
                 THEN HandleLongWord(st1, width)
                 ELSE [chunks |-> st1.chunks, cur_line |-> st1.cur_line]
        cl  == st2.cur_line
        cl2 == IF cl # <<>> /\ IsSpaceChunk(cl[Len(cl)])
                 THEN SubSeq(cl, 1, Len(cl) - 1) ELSE cl
    IN  WrapChunks(st2.chunks, width,
                   IF cl2 # <<>> THEN Append(out, Concat(cl2)) ELSE out)

TextwrapWrap(paragraph, width) ==
  WrapChunks(SplitChunks(MungeWhitespace(paragraph), <<>>), width, <<>>)

----------------------------------------------------------------------------
\* _wrap_text (helpers.py:135-174)

\* text.split("\n")
RECURSIVE SplitNL(_, _)
SplitNL(s, cur) ==
  IF s = <<>> THEN <<cur>>
  ELSE IF Head(s) = NL THEN <<cur>> \o SplitNL(Tail(s), <<>>)
  ELSE SplitNL(Tail(s), Append(cur, Head(s)))

Paragraphs(text) == SplitNL(text, <<>>)

\* chars_per_line = max(10, int(max_width / avg_char_width))
CharsPerLine(font, max_width) ==
  LET est == max_width \div XWidth(font)
  IN  IF est > 10 THEN est ELSE 10

\* chars_per_line = int(chars_per_line * 0.9)
ReduceBudget(cpl) == (cpl * 9) \div 10

\* font.getbbox(line)[2] > max_width and len(line) > 10
TooWide(line, font, max_width) ==
  TextWidth(font, line) > max_width /\ Len(line) > 10

\* a faulty variant of AdjustLoop: only the lines found too wide are kept
RECURSIVE AdjustLoopKeepWide(_, _, _, _, _)
AdjustLoopKeepWide(todo, paragraph, font, max_width, st) ==
  IF todo = <<>> THEN st
  ELSE LET line == Head(todo)
       IN  IF TooWide(line, font, max_width)
             THEN AdjustLoopKeepWide(Tail(todo), paragraph, font, max_width,
                    [chars_per_line |-> ReduceBudget(st.chars_per_line),
                     wrapped |-> TextwrapWrap(paragraph,
                                              ReduceBudget(st.chars_per_line)),
                     final_wrapped |-> Append(st.final_wrapped, line)])
             ELSE AdjustLoopKeepWide(Tail(todo), paragraph, font, max_width, st)

\* The loop `for line in wrapped` of lines 163-170, over the lines `todo` of
\* the list the loop was started on.  The `while` runs its body at most once
\* (it ends in `break`): it lowers chars_per_line and rebinds `wrapped` to a
\* new list, which the running for loop does not iterate; every line of the
\* first list is appended to final_wrapped.
RECURSIVE AdjustLoop(_, _, _, _, _)
AdjustLoop(todo, paragraph, font, max_width, st) ==
  IF todo = <<>> THEN st
  ELSE LET line == Head(todo)
           st2 == IF TooWide(line, font, max_width)
                    THEN [chars_per_line |-> ReduceBudget(st.chars_per_line),
                          wrapped |-> TextwrapWrap(paragraph,
                                        ReduceBudget(st.chars_per_line)),
                          final_wrapped |-> st.final_wrapped]
                    ELSE st
       IN  AdjustLoop(Tail(todo), paragraph, font, max_width,
                      [st2 EXCEPT !.final_wrapped = Append(@, line)])

\* Lines 155-172 for one non-blank paragraph: the lines it adds to `lines`.
WrapParagraph(paragraph, font, max_width) ==
  LET cpl == CharsPerLine(font, max_width)
      wrapped == TextwrapWrap(paragraph, cpl)
      st == AdjustLoop(wrapped, paragraph, font, max_width,
                       [chars_per_line |-> cpl, wrapped |-> wrapped,
                        final_wrapped |-> <<>>])
  IN  IF st.final_wrapped # <<>> THEN st.final_wrapped ELSE st.wrapped

\* Lines 150-172: one iteration of `for paragraph in paragraphs`.
ParagraphLines(paragraph, font, max_width) ==
  IF Strip(paragraph) = <<>> THEN << <<>> >>
  ELSE WrapParagraph(paragraph, font, max_width)

\* _wrap_text(text, font, max_width) as a function of its arguments
RECURSIVE WrapAll(_, _, _)
WrapAll(paras, font, max_width) ==
  IF paras = <<>> THEN <<>>
  ELSE ParagraphLines(Head(paras), font, max_width)
         \o WrapAll(Tail(paras), font, max_width)

WrapText(text, font, max_width) == WrapAll(Paragraphs(text), font, max_width)

\* Inputs of _wrap_text
Tokens ==
  { <<"a", "b">>, <<"c", "d", "e", "f", "g", "h", "i">>, <<"j", "k", "l", "m", "n", "o", "p", "q", "r", "s", "t", "u">>, <<"W", "W", "W", "W", "W", "W">>, <<SP>>, <<NL>> }

RECURSIVE TextsOf(_)
TextsOf(n) ==
  IF n = 0 THEN { <<>> }
  ELSE LET shorter == TextsOf(n - 1)
       IN  shorter \cup { t \o k : t \in shorter, k \in Tokens }

WrapTexts == TextsOf(MaxTokens)

WrapFonts == { TrueType("A", 20), TrueType("A", 24), DefaultFont }

WrapWidths == { 96, 144 }

WrapIdle ==
  /\ wpc = "none"
  /\ wtext = <<>>
  /\ wfont = DefaultFont
  /\ wmax = 0
  /\ wdone = 0
  /\ wlines = <<>>

\* A paragraph that is blank (lines 151-153).
WrapBlankParagraph ==
  /\ wpc = "loop"
  /\ wdone < Len(Paragraphs(wtext))
  /\ Strip(Paragraphs(wtext)[wdone + 1]) = <<>>
  /\ wlines' = wlines \o ParagraphLines(Paragraphs(wtext)[wdone + 1], wfont, wmax)
  /\ wdone' = wdone + 1
  /\ UNCHANGED <<wpc, wtext, wfont, wmax>>
  /\ UNCHANGED <<csvVars, folderVars, imageVars>>

\* A paragraph that is wrapped (lines 155-172).
WrapOneParagraph ==
  /\ wpc = "loop"
  /\ wdone < Len(Paragraphs(wtext))
  /\ Strip(Paragraphs(wtext)[wdone + 1]) # <<>>
  /\ wlines' = wlines \o ParagraphLines(Paragraphs(wtext)[wdone + 1], wfont, wmax)
  /\ wdone' = wdone + 1
  /\ UNCHANGED <<wpc, wtext, wfont, wmax>>
  /\ UNCHANGED <<csvVars, folderVars, imageVars>>

\* return lines (line 174)
WrapReturn ==
  /\ wpc = "loop"
  /\ wdone = Len(Paragraphs(wtext))
  /\ wpc' = "done"
  /\ UNCHANGED <<wtext, wfont, wmax, wdone, wlines>>
  /\ UNCHANGED <<csvVars, folderVars, imageVars>>

----------------------------------------------------------------------------
\* generate_image and _calculate_font_size (helpers.py:176-292)

StartFontSize == 120
MinFontSize == 20
FontSizeStep == 2
SpeakerSizeFloor == 14
FallbackSpeakerSizeFloor == 12

LowerCase == <<"a", "b", "c", "d", "e", "f", "g", "h", "i", "j", "k", "l", "m",
               "n", "o", "p", "q", "r", "s", "t", "u", "v", "w", "x", "y", "z">>
UpperCase == <<"A", "B", "C", "D", "E", "F", "G", "H", "I", "J", "K", "L", "M",
               "N", "O", "P", "Q", "R", "S", "T", "U", "V", "W", "X", "Y", "Z">>

\* s.upper()
Upper(s) ==
  [i \in 1..Len(s) |->
     IF \E k \in 1..26 : LowerCase[k] = s[i]
       THEN UpperCase[CHOOSE k \in 1..26 : LowerCase[k] = s[i]]
       ELSE s[i]]

NoSpeaker == [given |-> FALSE, text |-> <<>>]
Given(text) == [given |-> TRUE, text |-> text]

\* a faulty variant of HasSpeaker: "NULL" is compared without upper()
HasSpeakerCaseSensitive(sp) ==
  /\ sp.given /\ sp.text # <<>>
  /\ Strip(sp.text) # <<>>
  /\ sp.text # <<"N", "U", "L", "L">>

\* has_speaker = speaker and speaker.strip() and speaker.upper() != "NULL"
\* (helpers.py:248)
HasSpeaker(sp) ==
  /\ sp.given /\ sp.text # <<>>
  /\ Strip(sp.text) # <<>>
  /\ Upper(sp.text) # <<"N", "U", "L", "L">>

\* speaker and speaker.strip() and speaker.upper() != "NULL" (helpers.py:207)
FitterHasSpeaker(sp) ==
  /\ sp.given /\ sp.text # <<>>
  /\ Strip(sp.text) # <<>>
  /\ Upper(sp.text) # <<"N", "U", "L", "L">>

\* show_speaker = speaker and speaker.strip() and speaker.upper() != "NULL"
\* (helpers.py:262)
ShowSpeaker(sp) ==
  /\ sp.given /\ sp.text # <<>>
  /\ Strip(sp.text) # <<>>
  /\ Upper(sp.text) # <<"N", "U", "L", "L">>

\* margin_x = int(self.width * 0.02); max_width = self.width - 2 * margin_x
MaxWidthOf(w) == w - 2 * ((w * 2) \div 100)

\* margin_y = int(self.height * 0.05); max_height = self.height - 2 * margin_y
MaxHeightOf(h) == h - 2 * ((h * 5) \div 100)

\* quote = f'"{quote}"' when a speaker is present and the quote does not
\* start with a quote mark (helpers.py:248-250)
QuoteForLayout(q, sp) ==
  IF HasSpeaker(sp) /\ ~StartsWithQuote(q) THEN <<Q>> \o q \o <<Q>> ELSE q

\* _get_random_font(size): random.choice over the available fonts; a font
\* file that fails to load gives the default font for that call.
RandomFonts(size) ==
  UNION { IF f = "None" THEN {DefaultFont}
          ELSE {TrueType(f, size), DefaultFont} : f \in available_fonts }

\* _get_speaker_font(size)
SpeakerFonts(size) ==
  IF speaker_font_path # "None"
    THEN {TrueType(speaker_font_path, size), DefaultFont}
    ELSE {DefaultFont}

\* max(14, int(quote_font_size * 0.4))   (helpers.py:197)
SpeakerSizeFor(size) ==
  IF (size * 4) \div 10 > SpeakerSizeFloor
    THEN (size * 4) \div 10 ELSE SpeakerSizeFloor

\* max(12, int(min_font_size * 0.4))   (helpers.py:220)
FallbackSpeakerSize ==
  IF (MinFontSize * 4) \div 10 > FallbackSpeakerSizeFloor
    THEN (MinFontSize * 4) \div 10 ELSE FallbackSpeakerSizeFloor

\* total_text_height of lines 203-209, in tenths of a pixel:
\* len(lines) * (getbbox("Ay")[3] * 1.3), plus 2 * speaker_height
BlockHeight(qfont, sfont, ls, sp, present) ==
  Len(ls) * (AyHeight(qfont) * 13)
    + (IF present THEN TextHeight(sfont, sp.text) * 20 ELSE 0)

\* a faulty variant of NextFontSize: a step of 4
NextFontSizeBy4(size) == size - 4

\* quote_font_size -= 2
NextFontSize(size) == size - FontSizeStep

NoLayout == [quote_font |-> DefaultFont, speaker_font |-> DefaultFont,
             lines |-> <<>>, quote_size |-> 0, speaker_size |-> 0,
             fallback |-> FALSE]

ImageIdle ==
  /\ gpc = "none"
  /\ self_width = 0
  /\ self_height = 0
  /\ available_fonts = {}
  /\ speaker_font_path = "None"
  /\ quote_arg = <<>>
  /\ g_speaker = NoSpeaker
  /\ g_quote = <<>>
  /\ g_max_width = 0
  /\ g_max_height = 0
  /\ quote_font_size = 0
  /\ tried = <<>>
  /\ layout = NoLayout
  /\ text_height = 0
  /\ speaker_added = FALSE
  /\ drawn = <<>>

\* Lines 237-255 and 190-192: the margins, the quotation marks, and the entry
\* of _calculate_font_size.
GenerateBegin ==
  /\ gpc = "begin"
  /\ g_max_width' = MaxWidthOf(self_width)
  /\ g_max_height' = MaxHeightOf(self_height)
  /\ g_quote' = QuoteForLayout(quote_arg, g_speaker)
  /\ quote_font_size' = StartFontSize
  /\ gpc' = "fit"
  /\ UNCHANGED <<self_width, self_height, available_fonts, speaker_font_path, quote_arg,
                 g_speaker, tried, layout, text_height, speaker_added, drawn>>
  /\ UNCHANGED <<csvVars, folderVars, wrapVars>>

\* One iteration of the while loop (lines 194-216).
FitIteration ==
  /\ gpc = "fit"
  /\ quote_font_size >= MinFontSize
  /\ \E qfont \in RandomFonts(quote_font_size),
        sfont \in SpeakerFonts(SpeakerSizeFor(quote_font_size)) :
       LET ls == WrapText(g_quote, qfont, g_max_width)
           present == FitterHasSpeaker(g_speaker)
           total == BlockHeight(qfont, sfont, ls, g_speaker, present)
           fits == total <= g_max_height * 10
       IN  /\ tried' = Append(tried, [size |-> quote_font_size, fits |-> fits,
                                      speaker_added |-> present])
           /\ IF fits
                THEN /\ layout' = [quote_font |-> qfont, speaker_font |-> sfont,
                                   lines |-> ls,
                                   quote_size |-> quote_font_size,
                                   speaker_size |-> SpeakerSizeFor(quote_font_size),
                                   fallback |-> FALSE]
                     /\ gpc' = "render"
                     /\ UNCHANGED quote_font_size
                ELSE /\ quote_font_size' = NextFontSize(quote_font_size)
                     /\ UNCHANGED <<layout, gpc>>
  /\ UNCHANGED <<self_width, self_height, available_fonts, speaker_font_path, quote_arg,
                 g_speaker, g_quote, g_max_width, g_max_height, text_height,
                 speaker_added, drawn>>
  /\ UNCHANGED <<csvVars, folderVars, wrapVars>>

\* The loop ended without a fit: the fallback of lines 218-223.
FitFallback ==
  /\ gpc = "fit"
  /\ quote_font_size < MinFontSize
  /\ \E qfont \in RandomFonts(MinFontSize),
        sfont \in SpeakerFonts(FallbackSpeakerSize) :
       layout' = [quote_font |-> qfont, speaker_font |-> sfont,
                  lines |-> WrapText(g_quote, qfont, g_max_width),
                  quote_size |-> MinFontSize,
                  speaker_size |-> FallbackSpeakerSize,
                  fallback |-> TRUE]
  /\ gpc' = "render"
  /\ UNCHANGED <<self_width, self_height, available_fonts, speaker_font_path, quote_arg,
                 g_speaker, g_quote, g_max_width, g_max_height, quote_font_size, tried,
                 text_height, speaker_added, drawn>>
  /\ UNCHANGED <<csvVars, folderVars, wrapVars>>

\* What line 281 puts before the speaker: the three characters the source
\* file spells its dash with (each element stands for one character), and a
\* space.
SpeakerPrefix == <<"a^", "euro", "''", SP>>

\* The draw.text calls of lines 270-276, the first line at y (twentieths of a
\* pixel); x is kept doubled: 2 * x = self.width - text_width.
RECURSIVE DrawLines(_, _, _)
DrawLines(ls, qfont, y) ==
  IF ls = <<>> THEN <<>>
  ELSE <<[text |-> Head(ls), x2 |-> self_width - TextWidth(qfont, Head(ls)),
          y20 |-> y, font |-> qfont]>>
       \o DrawLines(Tail(ls), qfont, y + AyHeight(qfont) * 26)

\* Lines 257-292: the block height, the vertical centring, the drawing of the
\* quote lines and of the speaker line, and the saving of the image, which
\* can raise.
Render ==
  /\ gpc = "render"
  /\ LET qfont == layout.quote_font
         sfont == layout.speaker_font
         show == ShowSpeaker(g_speaker)
         th == Len(layout.lines) * (AyHeight(qfont) * 13)
                 + (IF show THEN TextHeight(sfont, g_speaker.text) * 20 ELSE 0)
         y0 == self_height * 10 - th
         yend == y0 + Len(layout.lines) * (AyHeight(qfont) * 26)
         speaker_text == SpeakerPrefix \o g_speaker.text
     IN  /\ text_height' = th
         /\ speaker_added' = show
         /\ drawn' = DrawLines(layout.lines, qfont, y0)
                       \o (IF show
                             THEN <<[text |-> speaker_text,
                                     x2 |-> self_width - TextWidth(sfont, speaker_text),
                                     y20 |-> yend + TextHeight(sfont, g_speaker.text) * 10,
                                     font |-> sfont]>>
                             ELSE <<>>)
  /\ \E saved \in BOOLEAN : gpc' = IF saved THEN "done" ELSE "raised"
  /\ UNCHANGED <<self_width, self_height, available_fonts, speaker_font_path, quote_arg,
                 g_speaker, g_quote, g_max_width, g_max_height, quote_font_size, tried,
                 layout>>
  /\ UNCHANGED <<csvVars, folderVars, wrapVars>>

\* Inputs of generate_image
Canvases == { <<800, 600>>, <<100, 100>> }

FontSetups == { {"None"}, {"A"}, {"A", "B"} }

SpeakerFontPaths == { "None", "S" }

Quotes ==
  { <<>>,
    <<"a", "b">>,
    <<"\"", "a", "b">>,
    <<"a", "b", " ", "c", "d", "e", "f", "g", "h", "i">>,
    <<"j", "k", "l", "m", "n", "o", "p", "q", "r", "s", "t", "u", " ", "W", "W", "W", "W", "W", "W", " ", "a", "b">>,
    <<"a", "b", "\n", "a", "b", "\n", "\n", "a", "b">> }

Speakers ==
  { NoSpeaker,
    Given(<<>>),
    Given(<<SP>>),
    Given(<<"N", "U", "L", "L">>),
    Given(<<"n", "u", "l", "l">>),
    Given(<<"N", "u", "l", "L">>),
    Given(<<SP, "N", "U", "L", "L">>),
    Given(<<"n", "u", "l">>),
    Given(<<"B", "o">>) }

InitImage ==
  /\ pc = "idle"
  /\ lines = <<>>
  /\ header_skipped = FALSE
  /\ current_quote = <<>>
  /\ current_speaker = <<>>
  /\ in_quote = FALSE
  /\ count = 0
  /\ calls = <<>>
  /\ ret = -1
  /\ fpc = "none"
  /\ csv_left = 0
  /\ total_images = 0
  /\ WrapIdle
  /\ gpc = "begin"
  /\ \E c \in Canvases : self_width = c[1] /\ self_height = c[2]
  /\ available_fonts \in FontSetups
  /\ speaker_font_path \in SpeakerFontPaths
  /\ quote_arg \in Quotes
  /\ g_speaker \in Speakers
  /\ g_quote = <<>>
  /\ g_max_width = 0
  /\ g_max_height = 0
  /\ quote_font_size = 0
  /\ tried = <<>>
  /\ layout = NoLayout
  /\ text_height = 0
  /\ speaker_added = FALSE
  /\ drawn = <<>>

NextImage ==
  \/ GenerateBegin
  \/ FitIteration
  \/ FitFallback
  \/ Render

SpecImage == InitImage /\ [][NextImage]_vars

InitWrap ==
  /\ pc = "idle"
  /\ lines = <<>>
  /\ header_skipped = FALSE
  /\ current_quote = <<>>
  /\ current_speaker = <<>>
  /\ in_quote = FALSE
  /\ count = 0
  /\ calls = <<>>
  /\ ret = -1
  /\ fpc = "none"
  /\ csv_left = 0
  /\ total_images = 0
  /\ wpc = "loop"
  /\ wtext \in WrapTexts
  /\ wfont \in WrapFonts
  /\ wmax \in WrapWidths
  /\ wdone = 0
  /\ wlines = <<>>
  /\ ImageIdle

NextWrap ==
  \/ WrapBlankParagraph
  \/ WrapOneParagraph
  \/ WrapReturn

SpecWrap == InitWrap /\ [][NextWrap]_vars

----------------------------------------------------------------------------
\* process_csv

\* a faulty variant of NextCount: the increment is forgotten
KeepCount(c) == c

\* count += 1, written into the file name as {count:03d}
NextCount(c) == c + 1

\* a faulty variant of CallGenerateImage: the locals are not reset after the
\* call (current_quote = "", current_speaker = "", in_quote = False forgotten)
CallGenerateImageNoReset(quote, speaker, cq, cs, iq, cq2, cs2, iq2) ==
  /\ count' = NextCount(count)
  /\ \E ok \in BOOLEAN :
       /\ calls' = Append(calls, [index |-> NextCount(count), quote |-> quote,
                                  speaker |-> speaker, ok |-> ok,
                                  line |-> Len(lines')])
       /\ current_quote' = cq
       /\ current_speaker' = cs
       /\ in_quote' = iq
       /\ pc' = IF ok THEN "loop" ELSE "raised"

\* The call self.generate_image(quote, speaker, output_path) of process_csv,
\* with the locals as they stand at the call (cq, cs, iq) and as the code
\* sets them after it returns (cq2, cs2, iq2).  generate_image either returns
\* or raises (font measuring, drawing and img.save can fail); process_csv has
\* no handler, so a raise leaves process_csv.
CallGenerateImage(quote, speaker, cq, cs, iq, cq2, cs2, iq2) ==
  /\ count' = NextCount(count)
  /\ \E ok \in BOOLEAN :
       /\ calls' = Append(calls, [index |-> NextCount(count), quote |-> quote,
                                  speaker |-> speaker, ok |-> ok,
                                  line |-> Len(lines')])
       /\ IF ok
            THEN /\ current_quote' = cq2
                 /\ current_speaker' = cs2
                 /\ in_quote' = iq2
                 /\ pc' = "loop"
            ELSE /\ current_quote' = cq
                 /\ current_speaker' = cs
                 /\ in_quote' = iq
                 /\ pc' = "raised"

\* First iteration of the for loop: the header line is skipped unread.
SkipHeader ==
  /\ pc = "loop"
  /\ ~header_skipped
  /\ \E h \in Headers : lines' = <<h>>
  /\ header_skipped' = TRUE
  /\ UNCHANGED <<current_quote, current_speaker, in_quote, count, calls, ret, pc>>
  /\ UNCHANGED <<folderVars, wrapVars, imageVars>>

CanRead == pc = "loop" /\ header_skipped /\ Len(lines) < MaxLines + 1

\* A blank line (helpers.py:328-341).
BlankLine ==
  /\ CanRead
  /\ \E line \in Lines :
       /\ IsBlank(line)
       /\ lines' = Append(lines, line)
       /\ IF Strip(current_quote) # <<>>
            THEN CallGenerateImage(Strip(current_quote), current_speaker,
                                   current_quote, current_speaker, in_quote,
                                   <<>>, <<>>, FALSE)
            ELSE UNCHANGED <<current_quote, current_speaker, in_quote,
                             count, calls, pc>>
  /\ UNCHANGED <<header_skipped, ret>>
  /\ UNCHANGED <<folderVars, wrapVars, imageVars>>

\* in_quote after lines 344-346
InQuoteAfterOpen(line, iq) == IF StartsWithQuote(line) THEN TRUE ELSE iq

\* line after lines 344-346: a leading quote mark is removed
LineAfterOpen(line) == IF StartsWithQuote(line) THEN DropFirst(line) ELSE line

\* '",' in line or line.endswith('"')   (helpers.py:350)
QuoteEnds(line) == HasCloseDelim(line) \/ EndsWithQuote(line)

\* A non-blank line that ends a quoted field (helpers.py:344-373).
QuotedClose ==
  /\ CanRead
  /\ \E raw \in Lines :
       LET line == LineAfterOpen(raw)
           cq == IF HasCloseDelim(line)
                   THEN Accumulate(current_quote, RSplitClose(line)[1])
                   ELSE Accumulate(current_quote, DropLast(line))
           cs == IF HasCloseDelim(line)
                   THEN Strip(RSplitClose(line)[2])
                   ELSE current_speaker
       IN  /\ ~IsBlank(raw)
           /\ InQuoteAfterOpen(raw, in_quote)
           /\ QuoteEnds(line)
           /\ lines' = Append(lines, raw)
           /\ CallGenerateImage(Strip(cq), cs, cq, cs, TRUE, <<>>, <<>>, FALSE)
  /\ UNCHANGED <<header_skipped, ret>>
  /\ UNCHANGED <<folderVars, wrapVars, imageVars>>

\* A non-blank line inside a quoted field that does not end it
\* (helpers.py:344-350, 374-376).
QuotedContinue ==
  /\ CanRead
  /\ \E raw \in Lines :
       LET line == LineAfterOpen(raw)
       IN  /\ ~IsBlank(raw)
           /\ InQuoteAfterOpen(raw, in_quote)
           /\ ~QuoteEnds(line)
           /\ lines' = Append(lines, raw)
           /\ current_quote' = Accumulate(current_quote, line)
           /\ in_quote' = TRUE
  /\ UNCHANGED <<header_skipped, current_speaker, count, calls, ret, pc>>
  /\ UNCHANGED <<folderVars, wrapVars, imageVars>>

\* A non-blank line outside a quoted field (helpers.py:377-389).
SingleLine ==
  /\ CanRead
  /\ \E line \in Lines :
       /\ ~IsBlank(line)
       /\ ~InQuoteAfterOpen(line, in_quote)
       /\ lines' = Append(lines, line)
       /\ IF HasComma(line) /\ Strip(RSplitComma(line)[1]) # <<>>
            THEN CallGenerateImage(Strip(RSplitComma(line)[1]),
                                   Strip(RSplitComma(line)[2]),
                                   current_quote, current_speaker, in_quote,
                                   current_quote, current_speaker, in_quote)
            ELSE UNCHANGED <<current_quote, current_speaker, in_quote,
                             count, calls, pc>>
  /\ UNCHANGED <<header_skipped, ret>>
  /\ UNCHANGED <<folderVars, wrapVars, imageVars>>

\* End of the for loop, with a last quote to process (helpers.py:391-400).
EndWithQuote ==
  /\ pc = "loop"
  /\ header_skipped
  /\ Strip(current_quote) # <<>>
  /\ count' = NextCount(count)
  /\ \E ok \in BOOLEAN :
       /\ calls' = Append(calls, [index |-> NextCount(count),
                                  quote |-> Strip(current_quote),
                                  speaker |-> current_speaker, ok |-> ok,
                                  line |-> Len(lines) + 1])
       /\ IF ok
            THEN pc' = "done" /\ ret' = NextCount(count)
            ELSE pc' = "raised" /\ ret' = ret
  /\ UNCHANGED <<lines, header_skipped, current_quote, current_speaker, in_quote>>
  /\ UNCHANGED <<folderVars, wrapVars, imageVars>>

\* End of the for loop, nothing left to process (helpers.py:391-400).
EndNoQuote ==
  /\ pc = "loop"
  /\ header_skipped
  /\ Strip(current_quote) = <<>>
  /\ pc' = "done"
  /\ ret' = count
  /\ UNCHANGED <<lines, header_skipped, current_quote, current_speaker,
                 in_quote, count, calls>>
  /\ UNCHANGED <<folderVars, wrapVars, imageVars>>

CsvStep ==
  \/ SkipHeader
  \/ BlankLine
  \/ QuotedClose
  \/ QuotedContinue
  \/ SingleLine
  \/ EndWithQuote
  \/ EndNoQuote

\* The locals of process_csv at its entry (helpers.py:309-321).
CsvEntry ==
  /\ pc = "loop"
  /\ lines = <<>>
  /\ header_skipped = FALSE
  /\ current_quote = <<>>
  /\ current_speaker = <<>>
  /\ in_quote = FALSE
  /\ count = 0
  /\ calls = <<>>
  /\ ret = -1

InitCsv ==
  /\ CsvEntry
  /\ fpc = "none"
  /\ csv_left = 0
  /\ total_images = 0
  /\ WrapIdle
  /\ ImageIdle

NextCsv == CsvStep

SpecCsv == InitCsv /\ [][NextCsv]_vars

----------------------------------------------------------------------------
\* generate_from_folder (directory.py:10-45)

\* Lines 14-38: the early returns (no project root, no data directory, no
\* CSV file), or the start of the loop over the CSV files found.
FolderStart ==
  /\ fpc = "start"
  /\ \E root_found \in BOOLEAN, data_exists \in BOOLEAN, n \in 0..MaxFiles :
       IF root_found /\ data_exists /\ n > 0
         THEN fpc' = "iter" /\ csv_left' = n
         ELSE fpc' = "done" /\ csv_left' = 0
  /\ total_images' = 0
  /\ UNCHANGED <<csvVars, wrapVars, imageVars>>

\* Line 41: generator.process_csv(...) is entered for the next CSV file.
FolderCall ==
  /\ fpc = "iter"
  /\ csv_left > 0
  /\ fpc' = "in_csv"
  /\ pc' = "loop"
  /\ lines' = <<>>
  /\ header_skipped' = FALSE
  /\ current_quote' = <<>>
  /\ current_speaker' = <<>>
  /\ in_quote' = FALSE
  /\ count' = 0
  /\ calls' = <<>>
  /\ ret' = -1
  /\ UNCHANGED <<csv_left, total_images, wrapVars, imageVars>>

\* Lines 41-42: process_csv returned; total_images += count.
FolderAccumulate ==
  /\ fpc = "in_csv"
  /\ pc = "done"
  /\ total_images' = total_images + ret
  /\ csv_left' = csv_left - 1
  /\ fpc' = "iter"
  /\ pc' = "idle"
  /\ UNCHANGED <<lines, header_skipped, current_quote, current_speaker,
                 in_quote, count, calls, ret, wrapVars, imageVars>>

\* Line 41: process_csv raised; the loop has no handler, so the exception
\* leaves generate_from_folder with the remaining CSV files unprocessed.
FolderRaise ==
  /\ fpc = "in_csv"
  /\ pc = "raised"
  /\ fpc' = "raised"
  /\ pc' = "idle"
  /\ UNCHANGED <<lines, header_skipped, current_quote, current_speaker,
                 in_quote, count, calls, ret>>
  /\ UNCHANGED <<csv_left, total_images, wrapVars, imageVars>>

\* Lines 44-45: the loop is over.
FolderFinish ==
  /\ fpc = "iter"
  /\ csv_left = 0
  /\ fpc' = "done"
  /\ UNCHANGED <<csv_left, total_images, csvVars, wrapVars, imageVars>>

InitFolder ==
  /\ pc = "idle"
  /\ lines = <<>>
  /\ header_skipped = FALSE
  /\ current_quote = <<>>
  /\ current_speaker = <<>>
  /\ in_quote = FALSE
  /\ count = 0
  /\ calls = <<>>
  /\ ret = -1
  /\ fpc = "start"
  /\ csv_left = 0
  /\ total_images = 0
  /\ WrapIdle
  /\ ImageIdle

NextFolder ==
  \/ FolderStart
  \/ FolderCall
  \/ CsvStep
  \/ FolderAccumulate
  \/ FolderRaise
  \/ FolderFinish

SpecFolder == InitFolder /\ [][NextFolder]_vars

----------------------------------------------------------------------------
\* Properties of process_csv and generate_from_folder

\* The lines of the file after its header line.
Body == IF lines = <<>> THEN <<>> ELSE Tail(lines)

\* A closing pattern as the specification words it: a quote-mark-comma
\* sequence, or a trailing quote mark.
ClosingPattern(s) == HasCloseDelim(s) \/ EndsWithQuote(s)

\* The lines after the header are: a line starting with a quote mark (and not
\* closing its own field), non-blank continuation lines without a closing
\* pattern, a line containing quote-mark-comma, and at most one blank line.
QuotedFieldShape(b, n) ==
  /\ n >= 2
  /\ Len(b) \in {n, n + 1}
  /\ Len(b) = n + 1 => IsBlank(b[n + 1])
  /\ StartsWithQuote(b[1])
  /\ ~ClosingPattern(DropFirst(b[1]))
  /\ \A i \in 2..(n - 1) : ~IsBlank(b[i]) /\ ~ClosingPattern(b[i])
  /\ HasCloseDelim(b[n])

RECURSIVE JoinLines(_)
JoinLines(ls) ==
  IF ls = <<>> THEN <<>>
  ELSE IF Len(ls) = 1 THEN ls[1]
  ELSE ls[1] \o <<NL>> \o JoinLines(Tail(ls))

\* The text the field of QuotedFieldShape holds: the newline-join of its
\* lines, the leading quote mark removed and the text before the closing
\* quote-mark-comma kept.
FieldText(b, n) ==
  LET k == SetMax(ClosePositions(b[n]))
  IN  JoinLines(<<DropFirst(b[1])>> \o SubSeq(b, 2, n - 1)
                \o <<SubSeq(b[n], 1, k - 1)>>)

FieldSpeaker(b, n) ==
  LET k == SetMax(ClosePositions(b[n]))
  IN  Strip(SubSeq(b[n], k + 2, Len(b[n])))

\* C1 (as claimed): a file whose lines after the header are an opening line,
\* continuation lines and a line containing quote-mark-comma yields exactly
\* one record, whose text is the newline-join of the field's lines and whose
\* speaker is the trimmed text after the closing pattern.  The text is
\* compared up to the surrounding whitespace process_csv trims from every
\* record, so that only the parsing of the field decides the property.
C1_QuotedMultiLineRecord ==
  \A n \in 2..Len(Body) :
    (pc = "done" /\ QuotedFieldShape(Body, n)) =>
       /\ Len(calls) = 1
       /\ calls[1].quote = Strip(FieldText(Body, n))
       /\ calls[1].speaker = FieldSpeaker(Body, n)

\* The trimmed text left of the last comma of a line, and right of it; a line
\* without a comma is its own left part (str.rsplit returns one part).
LeftOfLastComma(line) ==
  IF \E i \in 1..Len(line) : line[i] = CM
    THEN LET i == CHOOSE j \in 1..Len(line) :
                    line[j] = CM /\ \A k \in (j + 1)..Len(line) : line[k] # CM
         IN  Strip(SubSeq(line, 1, i - 1))
    ELSE Strip(line)

RightOfLastComma(line) ==
  IF \E i \in 1..Len(line) : line[i] = CM
    THEN LET i == CHOOSE j \in 1..Len(line) :
                    line[j] = CM /\ \A k \in (j + 1)..Len(line) : line[k] # CM
         IN  Strip(SubSeq(line, i + 1, Len(line)))
    ELSE <<>>

\* The for loop reads `line` in the SCANNING state, and the line is non-blank
\* and does not start with a quote mark.
ReadsPlainLine(line) ==
  /\ pc = "loop"
  /\ header_skipped
  /\ ~in_quote
  /\ lines' = Append(lines, line)
  /\ ~IsBlank(line)
  /\ ~StartsWithQuote(line)

\* Exactly one record, (quote, speaker), is emitted in this step.
EmitsOne(quote, speaker) ==
  /\ Len(calls') = Len(calls) + 1
  /\ SubSeq(calls', 1, Len(calls)) = calls
  /\ calls'[Len(calls')].quote = quote
  /\ calls'[Len(calls')].speaker = speaker

\* C2 (as claimed): every non-blank line read in SCANNING that does not start
\* with a quote mark is split at its last comma, and whenever the trimmed
\* left part is non-empty exactly one record is emitted while processing
\* that line.
C2_SingleLineRecord ==
  [][\A line \in Lines :
       (ReadsPlainLine(line) /\ LeftOfLastComma(line) # <<>>) =>
          EmitsOne(LeftOfLastComma(line), RightOfLastComma(line))]_vars

\* C2 (amended): the same for every such line that contains a comma; such a
\* line whose trimmed left part is empty, and a line without a comma, emit
\* no record.
C2_SingleLineRecordWithComma ==
  [][\A line \in Lines :
       ReadsPlainLine(line) =>
          IF HasComma(line) /\ LeftOfLastComma(line) # <<>>
            THEN EmitsOne(LeftOfLastComma(line), RightOfLastComma(line))
            ELSE calls' = calls]_vars

\* A plain line with two commas was read in SCANNING and its record emitted
\* on that line.
C2_Witness ==
  \E k \in 1..Len(calls) :
    /\ calls[k].line = Len(lines)
    /\ lines[Len(lines)] = <<"a", CM, "b", CM, "a">>
    /\ calls[k].quote = <<"a", CM, "b">>
    /\ calls[k].speaker = <<"a">>
    /\ ~in_quote
    /\ \A j \in 2..(Len(lines) - 1) : lines[j] = <<"a">>

\* C3: when no render fails the images carry the indices 1, 2, ..., n in
\* parse order, and process_csv returns n, the number of records emitted.
C3_BatchNumbering ==
  /\ (\A k \in 1..Len(calls) : calls[k].ok) =>
        \A k \in 1..Len(calls) : calls[k].index = k
  /\ pc = "done" => ret = Len(calls)

\* process_csv returned after writing three images.
C3_Witness ==
  /\ pc = "done"
  /\ Len(calls) = 3
  /\ ret = 3
  /\ \A k \in 1..3 : calls[k].ok

\* C4 (as claimed): no record is emitted with a quote text that is empty
\* after trimming.
C4_NoEmptyRecord ==
  \A k \in 1..Len(calls) : Strip(calls[k].quote) # <<>>

\* C5 (as claimed): a generate_image failure is caught: process_csv goes on
\* with the later records and generate_from_folder with the later CSV files;
\* the exception does not leave either.
C5_FailureIsolation ==
  (\E k \in 1..Len(calls) : ~calls[k].ok) =>
     /\ pc \in {"loop", "done"}
     /\ fpc \in {"iter", "in_csv", "done"}

----------------------------------------------------------------------------
\* Properties of _wrap_text

\* s.split(): the whitespace-separated words of s
RECURSIVE WordsFrom(_, _)
WordsFrom(s, cur) ==
  IF s = <<>> THEN (IF cur = <<>> THEN <<>> ELSE <<cur>>)
  ELSE IF Head(s) \in Whitespace
    THEN (IF cur = <<>> THEN <<>> ELSE <<cur>>) \o WordsFrom(Tail(s), <<>>)
    ELSE WordsFrom(Tail(s), Append(cur, Head(s)))

Words(s) == WordsFrom(s, <<>>)

\* The words of the output lines, read in order.
RECURSIVE WordsOfLines(_)
WordsOfLines(ls) ==
  IF ls = <<>> THEN <<>> ELSE Words(Head(ls)) \o WordsOfLines(Tail(ls))

\* The non-whitespace characters of s, in order.
NonSpace(s) == SelectSeq(s, LAMBDA c : c \notin Whitespace)

\* C8 (as claimed): the output lines, read in order, contain exactly the
\* input's words, unbroken and in the original order; a word longer than the
\* characters-per-line budget is never split.
C8_NoWordSplitting ==
  wpc = "done" => WordsOfLines(wlines) = Words(wtext)

\* C8 (amended): the output lines, read in order, contain exactly the input's
\* non-whitespace characters in the original order (nothing is dropped or
\* truncated), and no output line is longer than the characters-per-line
\* budget: a longer word is split across lines.
C8_NoCharacterDropped ==
  wpc = "done" =>
    /\ NonSpace(Concat(wlines)) = NonSpace(wtext)
    /\ \A i \in 1..Len(wlines) : Len(wlines[i]) <= CharsPerLine(wfont, wmax)

\* A 12-character word was wrapped with a budget of 10 characters per line
\* and came out split over two lines.
C8_Witness ==
  /\ wpc = "done"
  /\ wtext = <<"j", "k", "l", "m", "n", "o", "p", "q", "r", "s", "t", "u">>
  /\ CharsPerLine(wfont, wmax) = 10
  /\ wlines = << SubSeq(wtext, 1, 10), SubSeq(wtext, 11, 12) >>

\* C9 (as claimed): when the first wrap of a paragraph has a line wider than
\* max_width with more than 10 characters, the lines returned for that
\* paragraph are those of one re-wrap with the budget reduced by 10%.
C9_RetryResultReturned ==
  [][(wpc = "loop" /\ wdone' = wdone + 1) =>
       LET paragraph == Paragraphs(wtext)[wdone + 1]
           cpl == CharsPerLine(wfont, wmax)
           first == TextwrapWrap(paragraph, cpl)
       IN  (Strip(paragraph) # <<>>
              /\ \E i \in 1..Len(first) : TooWide(first[i], wfont, wmax))
             => wlines' = wlines \o TextwrapWrap(paragraph, ReduceBudget(cpl))]_vars

----------------------------------------------------------------------------
\* Properties of generate_image and _calculate_font_size

\* The speaker is None, empty, whitespace-only, or "NULL" in any letter case.
AbsentSpeaker(sp) ==
  \/ ~sp.given
  \/ \A i \in 1..Len(sp.text) : sp.text[i] \in Whitespace
  \/ /\ Len(sp.text) = 4
     /\ sp.text[1] \in {"N", "n"}
     /\ sp.text[2] \in {"U", "u"}
     /\ sp.text[3] \in {"L", "l"}
     /\ sp.text[4] \in {"L", "l"}

\* The block height of a layout in tenths of a pixel: line_count times the
\* line height times 1.3, plus twice the speaker line height when a speaker
\* is present.
MeasuredBlockHeight(lay, sp) ==
  Len(lay.lines) * AyHeight(lay.quote_font) * 13
    + (IF AbsentSpeaker(sp) THEN 0
       ELSE 2 * TextHeight(lay.speaker_font, sp.text) * 10)

FitterReturned == gpc \in {"render", "done", "raised"}

C7_AbsentSpeakerNormalization ==
  LET present == ~AbsentSpeaker(g_speaker)
  IN  /\ gpc \in {"fit", "render", "done", "raised"} =>
           g_quote = IF present /\ (quote_arg = <<>> \/ quote_arg[1] # Q)
                       THEN <<Q>> \o quote_arg \o <<Q>>
                       ELSE quote_arg
      /\ \A k \in 1..Len(tried) : tried[k].speaker_added = present
      /\ gpc \in {"done", "raised"} =>
           /\ speaker_added = present
           /\ text_height = MeasuredBlockHeight(layout, g_speaker)
           /\ Len(drawn) = Len(layout.lines) + (IF present THEN 1 ELSE 0)
           /\ \A i \in 1..Len(layout.lines) : drawn[i].text = layout.lines[i]
           /\ present => drawn[Len(drawn)].text = SpeakerPrefix \o g_speaker.text

\* An image was drawn for the speaker "null": the quote went to the fitter
\* without added marks and the last text drawn is the last quote line.
C7_Witness ==
  /\ gpc = "done"
  /\ g_speaker = Given(<<"n", "u", "l", "l">>)
  /\ quote_arg = <<"a", "b">>
  /\ g_quote = quote_arg
  /\ tried # <<>>
  /\ drawn # <<>>
  /\ Len(drawn) = Len(layout.lines)

\* C10 (as claimed): on every return path of the fitter the speaker font is
\* loaded at max(14, floor(quote_size * 0.4)), so never below 14.
C10_SpeakerFontSize ==
  FitterReturned =>
    /\ layout.speaker_size =
         (IF (layout.quote_size * 4) \div 10 > 14
            THEN (layout.quote_size * 4) \div 10 ELSE 14)
    /\ layout.speaker_size >= 14

----------------------------------------------------------------------------
\* Properties of the parser states of process_csv

\* The closing pattern in a line as read: quote-mark-comma, or a trailing
\* quote mark.
HasClosingPattern(raw) == HasCloseDelim(raw) \/ EndsWithQuote(raw)

\* process_csv reads one more line while it is inside a quoted field.
ReadsInQuotedField ==
  /\ pc = "loop"
  /\ in_quote
  /\ Len(lines') = Len(lines) + 1

\* C11 (as claimed): once process_csv is inside a quoted field, every line
\* read that does not contain the closing pattern, blank lines included, is
\* appended to the quote buffer (newline-joined), no record is emitted for
\* it and the field stays open.
C11_QuotedFieldAccumulation ==
  [][ReadsInQuotedField =>
       LET raw == lines'[Len(lines')]
       IN  ~HasClosingPattern(raw) =>
             /\ calls' = calls
             /\ in_quote'
             /\ current_quote' = Accumulate(current_quote, raw)]_vars

\* A call of generate_image made by the blank-line rule (the line it was
\* made on is blank) or by the end-of-input rule (made after the last line).
ByBlankOrEndRule(call) ==
  \/ call.line > Len(lines)
  \/ IsBlank(lines[call.line])

\* C12: at the start of every line and at the end of input the accumulated
\* speaker is empty, and outside a quoted field the quote buffer is empty
\* too; so every record emitted by the blank-line rule or by the
\* end-of-input rule has an empty speaker, and a buffer that is not empty at
\* the end of input comes from an unterminated quoted field.
C12_ParserStateInvariant ==
  /\ pc \in {"loop", "done"} =>
       /\ current_speaker = <<>>
       /\ ~in_quote => current_quote = <<>>
  /\ \A k \in 1..Len(calls) :
       ByBlankOrEndRule(calls[k]) => calls[k].speaker = <<>>
  /\ (pc = "done" /\ current_quote # <<>>) => in_quote

\* After a closed quoted field with a speaker was emitted, a later field was
\* left unterminated and the end-of-input rule emitted it without a speaker.
C12_Witness ==
  /\ pc = "done"
  /\ Len(calls) = 2
  /\ calls[1].speaker # <<>>
  /\ calls[2].line = Len(lines) + 1
  /\ calls[2].speaker = <<>>
  /\ in_quote
  /\ current_quote # <<>>

====
